---------------------------- MODULE Spec2Model ----------------------------
(***************************************************************************)
(* Health-ScannerZA backend: the product store (database.py) and the two   *)
(* request handlers get_product / add_product (app.py), with the additive  *)
(* parsing both files share.                                               *)
(*                                                                         *)
(* Conventions                                                             *)
(*   - a text value whose characters matter (an additive string) is a      *)
(*     sequence of one-character strings; other texts are TLA+ strings;    *)
(*   - nutrient values are kept in tenths (10.6 is 106);                   *)
(*   - a value that may be SQL NULL / JSON null, or a JSON value sqlite3   *)
(*     cannot bind, is tagged: [t |-> "str" | "null" | "list", v |-> ..];  *)
(*   - create_connection, which app.py imports, is not among the sources;  *)
(*     the connection it returns is the one get_db_connection of           *)
(*     database.py opens on DATABASE;                                      *)
(*   - calculate_health_score lives in a module that is not part of the    *)
(*     sources at hand; the health_score member of the lookup response is  *)
(*     left out of the response body.                                      *)
(***************************************************************************)
EXTENDS Integers, Sequences, FiniteSets, TLC

\* ------------------------------------------------------------------ bounds
NumWorkers == 2      \* request handlers that may run at the same time
MaxRequests == 3     \* requests accepted in one behaviour
MaxRawLen == 4       \* length of the raw additive strings that are enumerated

Workers == 1..NumWorkers

\* ------------------------------------------------------------ tagged values
Str(s) == [t |-> "str", v |-> s]
Null == [t |-> "null", v |-> ""]
JsonList == [t |-> "list", v |-> ""]
Text(chars) == [t |-> "str", v |-> chars]
NullText == [t |-> "null", v |-> <<>>]

\* ------------------------------------------------------- database.py: data
SAMPLE_PRODUCTS ==
  <<
    [barcode |-> "6001000000018", name |-> "Coca-Cola Original Taste", brand |-> "Coca-Cola", category |-> "Beverage",
     sugar |-> 106, salt |-> 0, fat |-> 0, saturated_fat |-> 0, protein |-> 0, fiber |-> 0, calories |-> 420,
     additives_str |-> <<"E", "1", "5", "0", "d", ",", "E", "3", "3", "8">>],
    [barcode |-> "6009618580016", name |-> "Simba Potato Chips Salt & Vinegar", brand |-> "Simba", category |-> "Snack",
     sugar |-> 7, salt |-> 14, fat |-> 300, saturated_fat |-> 120, protein |-> 57, fiber |-> 40, calories |-> 5200,
     additives_str |-> <<"E", "6", "2", "1", ",", "E", "6", "3", "1">>],
    [barcode |-> "6001234567890", name |-> "Albany Low GI Brown Bread", brand |-> "Albany", category |-> "Bakery",
     sugar |-> 30, salt |-> 4, fat |-> 20, saturated_fat |-> 5, protein |-> 100, fiber |-> 65, calories |-> 2300,
     additives_str |-> <<"E", "4", "7", "1", ",", "E", "2", "8", "2">>],
    [barcode |-> "6002000000001", name |-> "Clover Full Cream Milk", brand |-> "Clover", category |-> "Dairy",
     sugar |-> 47, salt |-> 1, fat |-> 33, saturated_fat |-> 21, protein |-> 34, fiber |-> 0, calories |-> 610,
     additives_str |-> <<>>],
    [barcode |-> "6009173000551", name |-> "Ouma Rusks Buttermilk", brand |-> "Ouma", category |-> "Snack",
     sugar |-> 120, salt |-> 6, fat |-> 120, saturated_fat |-> 70, protein |-> 80, fiber |-> 20, calories |-> 4500,
     additives_str |-> <<"E", "4", "7", "1", ",", "E", "3", "2", "2">>],
    [barcode |-> "6009184100234", name |-> "Tastic Rice", brand |-> "Tastic", category |-> "Grain",
     sugar |-> 2, salt |-> 0, fat |-> 0, saturated_fat |-> 0, protein |-> 70, fiber |-> 8, calories |-> 3600,
     additives_str |-> <<>>],
    [barcode |-> "6009180000100", name |-> "Bokomo Pronutro Original", brand |-> "Bokomo", category |-> "Cereal",
     sugar |-> 140, salt |-> 3, fat |-> 50, saturated_fat |-> 10, protein |-> 200, fiber |-> 100, calories |-> 3900,
     additives_str |-> <<"E", "3", "2", "0", ",", "E", "3", "2", "1">>],
    [barcode |-> "6009210000213", name |-> "Fatti's & Moni's Macaroni", brand |-> "Fatti's & Moni's", category |-> "Pasta",
     sugar |-> 20, salt |-> 0, fat |-> 10, saturated_fat |-> 3, protein |-> 120, fiber |-> 30, calories |-> 3700,
     additives_str |-> <<>>],
    [barcode |-> "6009686000058", name |-> "Liqui-Fruit 100% Apple Juice", brand |-> "Liqui-Fruit", category |-> "Beverage",
     sugar |-> 100, salt |-> 0, fat |-> 0, saturated_fat |-> 0, protein |-> 2, fiber |-> 0, calories |-> 400,
     additives_str |-> <<>>],
    [barcode |-> "6009178000013", name |-> "Koo Baked Beans in Tomato Sauce", brand |-> "Koo", category |-> "Canned Food",
     sugar |-> 50, salt |-> 5, fat |-> 5, saturated_fat |-> 1, protein |-> 40, fiber |-> 50, calories |-> 1000,
     additives_str |-> <<"E", "1", "4", "2", "2", ",", "E", "4", "1", "2">>],
    [barcode |-> "6001509000134", name |-> "Five Roses Tea Bags", brand |-> "Five Roses", category |-> "Beverage",
     sugar |-> 0, salt |-> 0, fat |-> 0, saturated_fat |-> 0, protein |-> 0, fiber |-> 0, calories |-> 0,
     additives_str |-> <<>>],
    [barcode |-> "6009170000200", name |-> "Mrs Ball's Chutney Original", brand |-> "Mrs Ball's", category |-> "Condiment",
     sugar |-> 200, salt |-> 10, fat |-> 1, saturated_fat |-> 0, protein |-> 1, fiber |-> 5, calories |-> 800,
     additives_str |-> <<"E", "3", "3", "0", ",", "E", "4", "1", "5">>],
    [barcode |-> "6009695000045", name |-> "Nola Mayonnaise", brand |-> "Nola", category |-> "Condiment",
     sugar |-> 40, salt |-> 8, fat |-> 700, saturated_fat |-> 100, protein |-> 10, fiber |-> 0, calories |-> 6500,
     additives_str |-> <<"E", "3", "8", "5", ",", "E", "4", "1", "2">>],
    [barcode |-> "6009121000022", name |-> "I&J Fish Fingers", brand |-> "I&J", category |-> "Frozen Food",
     sugar |-> 20, salt |-> 6, fat |-> 100, saturated_fat |-> 20, protein |-> 120, fiber |-> 10, calories |-> 2500,
     additives_str |-> <<"E", "1", "6", "0", "a", ",", "E", "4", "1", "2">>]
  >>

\* ------------------------------------------------------ additive parsing
\* the characters str.strip() removes
Whitespace == {" ", "\t"}

RECURSIVE Split(_)
\* s.split(','): the pieces between the commas, empty pieces included
Split(s) ==
  IF \E i \in 1..Len(s) : s[i] = ","
    THEN LET i == CHOOSE k \in 1..Len(s) :
                    s[k] = "," /\ \A j \in 1..(k - 1) : s[j] # ","
         IN  <<SubSeq(s, 1, i - 1)>> \o Split(SubSeq(s, i + 1, Len(s)))
    ELSE <<s>>

RECURSIVE LStrip(_)
LStrip(s) == IF s # <<>> /\ Head(s) \in Whitespace THEN LStrip(Tail(s)) ELSE s

RECURSIVE RStrip(_)
RStrip(s) ==
  IF s # <<>> /\ s[Len(s)] \in Whitespace THEN RStrip(SubSeq(s, 1, Len(s) - 1)) ELSE s

\* a.strip()
StripNone(s) == s
Strip(s) == LStrip(RStrip(s))

\* [x for x in seq if x]: the non-empty members, in order
RECURSIVE NonEmpty(_)
NonEmpty(seq) ==
  IF seq = <<>> THEN <<>>
  ELSE IF Head(seq) = <<>> THEN NonEmpty(Tail(seq))
       ELSE <<Head(seq)>> \o NonEmpty(Tail(seq))

\* if additives_str: [a.strip() for a in additives_str.split(',') if a.strip()]
\* else: []
ParseAdditives(s) ==
  IF s = <<>> THEN <<>>
  ELSE LET pieces == Split(s)
       IN  NonEmpty([i \in 1..Len(pieces) |-> Strip(pieces[i])])

\* ------------------------------------------------- database.py: the schema
\* CREATE TABLE products (...): the columns of the products table
ProductColumns ==
  {"id", "barcode", "name", "brand", "category", "sugar", "salt", "fat",
   "saturated_fat", "protein", "fiber", "calories"}

\* the columns declared NOT NULL that a request can leave null
NotNullTagged == {"barcode"}

\* a new row of the products table: id INTEGER PRIMARY KEY AUTOINCREMENT
NewRow(tbl, vals) == [id |-> Len(tbl) + 1] @@ vals

\* INSERT accepted whatever the columns and the barcode are
ExecInsertProductNoChecks(tbl, vals) ==
  [err |-> "none", table |-> Append(tbl, NewRow(tbl, vals)), lastrowid |-> Len(tbl) + 1]

\* conn.execute("INSERT INTO products (<DOMAIN vals>) VALUES (?, ...)", vals)
\* on the products table tbl.  sqlite3 compiles the statement (unknown column:
\* OperationalError), binds the parameters (unsupported type:
\* ProgrammingError), then runs it (NOT NULL, UNIQUE: IntegrityError).
ExecInsertProduct(tbl, vals) ==
  LET err ==
        IF ~(DOMAIN vals \subseteq ProductColumns) THEN "OperationalError"
        ELSE IF vals.barcode.t = "list" THEN "ProgrammingError"
        ELSE IF \E c \in NotNullTagged : vals[c].t = "null" THEN "IntegrityError"
        ELSE IF \E i \in 1..Len(tbl) : tbl[i].barcode = vals.barcode
          THEN "IntegrityError"
        ELSE "none"
  IN  IF err = "none"
        THEN [err |-> "none", table |-> Append(tbl, NewRow(tbl, vals)),
              lastrowid |-> Len(tbl) + 1]
        ELSE [err |-> err, table |-> tbl, lastrowid |-> 0]

\* for additive in additives:
\*     conn.execute("INSERT INTO additives (product_id, additive) VALUES (?, ?)")
InsertAdditives(tbl, product_id, codes) ==
  tbl \o [i \in 1..Len(codes) |->
            [id |-> Len(tbl) + i, product_id |-> product_id, additive |-> codes[i]]]

\* one iteration of the seeding loop of init_db on the tables of its
\* connection: insert the product, then its additives; an IntegrityError of
\* either is swallowed (no other error can arise from the catalog)
SeedOne(prods, adds, p) ==
  LET r == ExecInsertProduct(prods,
             [barcode |-> Str(p.barcode), name |-> p.name, brand |-> p.brand,
              category |-> Str(p.category), sugar |-> p.sugar, salt |-> p.salt,
              fat |-> p.fat, saturated_fat |-> p.saturated_fat,
              protein |-> p.protein, fiber |-> p.fiber, calories |-> p.calories])
  IN  IF r.err = "none"
        THEN [products |-> r.table,
              additives |-> IF p.additives_str # <<>>
                              THEN InsertAdditives(adds, r.lastrowid,
                                                   ParseAdditives(p.additives_str))
                              ELSE adds]
        ELSE [products |-> prods, additives |-> adds]

\* --------------------------------------------------------- app.py: lookup
\* dict.get(key, default)
DictGet(d, key, default) == IF key \in DOMAIN d THEN d[key] ELSE default

\* conn.execute("SELECT * FROM products WHERE barcode = ?", (barcode,))
SelectByBarcode(tbl, barcode) ==
  SelectSeq(tbl, LAMBDA row : row.barcode = Str(barcode))

\* steps 2 to 5 of get_product: the additives read from the row's 'additives'
\* entry, and the response body built from the row
ProductResponse(product_dict) ==
  LET additives_str == DictGet(product_dict, "additives", Text(<<>>))
      additives_list == IF additives_str.t = "str"
                          THEN ParseAdditives(additives_str.v)
                          ELSE <<>>
  IN  [status |-> 200,
       body |-> [barcode |-> product_dict.barcode,
                 name |-> product_dict.name,
                 brand |-> product_dict.brand,
                 category |-> product_dict.category,
                 nutrition_per_100g |->
                   [sugar |-> product_dict.sugar,
                    salt |-> product_dict.salt,
                    fat |-> product_dict.fat,
                    saturated_fat |-> product_dict.saturated_fat,
                    protein |-> product_dict.protein,
                    fiber |-> product_dict.fiber,
                    calories |-> product_dict.calories],
                 additives |-> additives_list]]

\* a lookup without the test for the absent row: dict(None) raises
GetProductResultNoNoneCheck(tbl, barcode) ==
  LET rows == SelectByBarcode(tbl, barcode)
  IN  IF rows = <<>>
        THEN [status |-> 500, body |-> [error |-> "Internal Server Error"]]
        ELSE ProductResponse(Head(rows))

\* get_product(barcode) on the committed products table: the response
GetProductResult(tbl, barcode) ==
  LET rows == SelectByBarcode(tbl, barcode)
  IN  IF rows = <<>>
        THEN [status |-> 404, body |-> [error |-> "Product not found in the database."]]
        ELSE ProductResponse(Head(rows))

\* --------------------------------------------------------- app.py: insert
required_fields ==
  {"barcode", "name", "brand", "sugar", "salt", "fat", "saturated_fat",
   "protein", "fiber", "calories"}

\* all(field in data for field in required_fields)
HasRequired(data) == required_fields \subseteq DOMAIN data

\* an existence check that finds nothing
ExistsCheckNever(tbl, barcode) ==
  IF barcode.t = "list" THEN "raise" ELSE "absent"

\* conn.execute("SELECT barcode FROM products WHERE barcode = ?", (barcode,))
\*     .fetchone(): "raise" when the barcode cannot be bound, else whether a
\* row came back (barcode = NULL matches no row)
ExistsCheck(tbl, barcode) ==
  IF barcode.t = "list" THEN "raise"
  ELSE IF \E i \in 1..Len(tbl) : barcode.t = "str" /\ tbl[i].barcode = barcode
    THEN "found"
  ELSE "absent"

\* the parameters add_product binds to its INSERT statement
InsertParams(data) ==
  [barcode |-> data.barcode, name |-> data.name, brand |-> data.brand,
   category |-> DictGet(data, "category", Str("General")),
   sugar |-> data.sugar, salt |-> data.salt, fat |-> data.fat,
   saturated_fat |-> data.saturated_fat, protein |-> data.protein,
   fiber |-> data.fiber, calories |-> data.calories,
   additives |-> DictGet(data, "additives", Text(<<>>))]

\* an insert that writes the product row, fails on the additives and answers
\* 500 without undoing the row
AddProductInsertNoRollback(tbl, data) ==
  LET vals == [c \in DOMAIN InsertParams(data) \ {"additives"} |-> InsertParams(data)[c]]
  IN  [status |-> 500,
       body |-> [error |-> "Database error during product insertion."],
       products |-> Append(tbl, NewRow(tbl, vals))]

\* the try block of add_product and its except clause: the INSERT and the
\* commit, or the rollback; the response and the committed products table
AddProductInsert(tbl, data) ==
  LET r == ExecInsertProduct(tbl, InsertParams(data))
  IN  IF r.err = "none"
        THEN [status |-> 201,
              body |-> [message |-> "Product added successfully."],
              products |-> r.table]
        ELSE [status |-> 500,
              body |-> [error |-> "Database error during product insertion."],
              products |-> tbl]

\* getattr(g, '_database', None): no handler ever sets g._database
g_database == "None"

\* close_connection: the teardown closes the handle held in g, if any
close_connection(db, c) == IF db # "None" THEN "closed" ELSE c

\* ------------------------------------------------------------ the requests
FreshBarcode == "6001111111111"
SeededBarcode == SAMPLE_PRODUCTS[1].barcode
ExampleRaw == <<" ", "E", "4", "7", "1", ",", " ", "E", "2", "8", "2", " ", ",", ",">>

Required(bc) ==
  [barcode |-> bc, name |-> "Rooibos Tea", brand |-> "Freshpak", sugar |-> 0,
   salt |-> 1, fat |-> 2, saturated_fat |-> 3, protein |-> 4, fiber |-> 5,
   calories |-> 10]

WithOptional(d, category, adds) == d @@ [category |-> category, additives |-> adds]

Without(d, field) == [k \in DOMAIN d \ {field} |-> d[k]]

\* the request bodies the handlers are exercised with
Payloads ==
  { WithOptional(Required(Str(FreshBarcode)), Str("Beverage"), Text(ExampleRaw)),
    Required(Str(FreshBarcode)),
    WithOptional(Required(Str(FreshBarcode)), Null, NullText),
    WithOptional(Required(Str(SeededBarcode)), Str("Beverage"), Text(ExampleRaw)),
    Required(Str(SeededBarcode)),
    Required(JsonList),
    Required(Null),
    Without(Required(Str(FreshBarcode)), "fiber") }

LookupBarcodes == {FreshBarcode, SeededBarcode}

NoData == [barcode |-> Null]
NoRequest == [kind |-> "none", barcode |-> "", data |-> NoData]
NoResponse == [status |-> 0, body |-> [error |-> ""]]

\* ------------------------------------------------------------------- state
VARIABLES
  dbFile,       \* os.path.exists(DATABASE)
  products,     \* the committed rows of table products
  additives,    \* the committed rows of table additives
  bootPc,       \* "start", "seeding" (inside init_db), "serving" (app.run)
  seedIdx,      \* the next entry of SAMPLE_PRODUCTS the seeding loop takes
  txProducts,   \* table products as the connection of init_db sees it
  txAdditives,  \* table additives as the connection of init_db sees it
  pc,           \* per handler: "idle", "get_product", "add_product",
                \*              "exists", "insert", "done"
  req,          \* per handler: the request it serves
  resp,         \* per handler: the response it gave
  conn,         \* per handler: its connection, "none", "open" or "closed"
  wasStored,    \* per handler: was the barcode stored when the request came
  raced,        \* per handler: did it pass the existence check while another
                \*              handler stood between check and insert of
                \*              the same barcode
  nreq,         \* requests accepted so far
  raw,          \* a raw additive string
  parsed        \* ParseAdditives of raw

storeVars == <<dbFile, products, additives>>
bootVars == <<bootPc, seedIdx, txProducts, txAdditives>>
reqVars == <<pc, req, resp, conn, wasStored, raced, nreq>>
parseVars == <<raw, parsed>>
vars == <<dbFile, products, additives, bootPc, seedIdx, txProducts, txAdditives,
          pc, req, resp, conn, wasStored, raced, nreq, raw, parsed>>

Init ==
  /\ dbFile = FALSE
  /\ products = <<>>
  /\ additives = <<>>
  /\ bootPc = "start"
  /\ seedIdx = 1
  /\ txProducts = <<>>
  /\ txAdditives = <<>>
  /\ pc = [w \in Workers |-> "idle"]
  /\ req = [w \in Workers |-> NoRequest]
  /\ resp = [w \in Workers |-> NoResponse]
  /\ conn = [w \in Workers |-> "none"]
  /\ wasStored = [w \in Workers |-> FALSE]
  /\ raced = [w \in Workers |-> FALSE]
  /\ nreq = 0
  /\ raw = <<>>
  /\ parsed = <<>>

\* ------------------------------------------------------ database.py: boot
\* check_db_exists: init_db when the file is missing (connecting creates the
\* file, CREATE TABLE IF NOT EXISTS keeps existing tables), else nothing
CheckDbExists ==
  /\ bootPc = "start"
  /\ IF ~dbFile
       THEN /\ dbFile' = TRUE
            /\ txProducts' = products
            /\ txAdditives' = additives
            /\ seedIdx' = 1
            /\ bootPc' = "seeding"
       ELSE /\ bootPc' = "serving"
            /\ UNCHANGED <<dbFile, txProducts, txAdditives, seedIdx>>
  /\ UNCHANGED <<products, additives>>
  /\ UNCHANGED reqVars
  /\ UNCHANGED parseVars

\* init_db: one iteration of the loop over SAMPLE_PRODUCTS
SeedProduct ==
  /\ bootPc = "seeding"
  /\ seedIdx <= Len(SAMPLE_PRODUCTS)
  /\ LET r == SeedOne(txProducts, txAdditives, SAMPLE_PRODUCTS[seedIdx])
     IN  /\ txProducts' = r.products
         /\ txAdditives' = r.additives
  /\ seedIdx' = seedIdx + 1
  /\ UNCHANGED <<dbFile, products, additives, bootPc>>
  /\ UNCHANGED reqVars
  /\ UNCHANGED parseVars

\* init_db: conn.commit(), conn.close(); then the server starts
SeedCommit ==
  /\ bootPc = "seeding"
  /\ seedIdx > Len(SAMPLE_PRODUCTS)
  /\ products' = txProducts
  /\ additives' = txAdditives
  /\ bootPc' = "serving"
  /\ UNCHANGED <<dbFile, seedIdx, txProducts, txAdditives>>
  /\ UNCHANGED reqVars
  /\ UNCHANGED parseVars

\* the server process is stopped and started again; the database file stays
Restart ==
  /\ bootPc = "serving"
  /\ \A w \in Workers : pc[w] = "idle"
  /\ bootPc' = "start"
  /\ UNCHANGED <<dbFile, products, additives, seedIdx, txProducts, txAdditives>>
  /\ UNCHANGED reqVars
  /\ UNCHANGED parseVars

\* --------------------------------------------------------- app.py: routes
BarcodeStored(tbl, barcode) == \E i \in 1..Len(tbl) : tbl[i].barcode = barcode

\* GET /api/product/<barcode> arrives
ReceiveGet(w, barcode) ==
  /\ bootPc = "serving"
  /\ pc[w] = "idle"
  /\ nreq < MaxRequests
  /\ nreq' = nreq + 1
  /\ req' = [req EXCEPT ![w] = [kind |-> "get", barcode |-> barcode, data |-> NoData]]
  /\ resp' = [resp EXCEPT ![w] = NoResponse]
  /\ conn' = [conn EXCEPT ![w] = "none"]
  /\ wasStored' = [wasStored EXCEPT ![w] = BarcodeStored(products, Str(barcode))]
  /\ raced' = [raced EXCEPT ![w] = FALSE]
  /\ pc' = [pc EXCEPT ![w] = "get_product"]
  /\ UNCHANGED storeVars
  /\ UNCHANGED bootVars
  /\ UNCHANGED parseVars

\* POST /api/product arrives with the JSON body data
ReceiveAdd(w, data) ==
  /\ bootPc = "serving"
  /\ pc[w] = "idle"
  /\ nreq < MaxRequests
  /\ nreq' = nreq + 1
  /\ req' = [req EXCEPT ![w] = [kind |-> "add", barcode |-> "", data |-> data]]
  /\ resp' = [resp EXCEPT ![w] = NoResponse]
  /\ conn' = [conn EXCEPT ![w] = "none"]
  /\ wasStored' = [wasStored EXCEPT ![w] = BarcodeStored(products, data.barcode)]
  /\ raced' = [raced EXCEPT ![w] = FALSE]
  /\ pc' = [pc EXCEPT ![w] = "add_product"]
  /\ UNCHANGED storeVars
  /\ UNCHANGED bootVars
  /\ UNCHANGED parseVars

\* get_product: the connection is opened, the row fetched, the response
\* built and the connection closed on both paths; then the teardown
GetProduct(w) ==
  /\ pc[w] = "get_product"
  /\ resp' = [resp EXCEPT ![w] = GetProductResult(products, req[w].barcode)]
  /\ conn' = [conn EXCEPT ![w] = close_connection(g_database, "closed")]
  /\ pc' = [pc EXCEPT ![w] = "done"]
  /\ UNCHANGED <<req, wasStored, raced, nreq>>
  /\ UNCHANGED storeVars
  /\ UNCHANGED bootVars
  /\ UNCHANGED parseVars

\* add_product: the required-fields test; 400, or the connection is opened
AddValidate(w) ==
  /\ pc[w] = "add_product"
  /\ IF ~HasRequired(req[w].data)
       THEN /\ resp' = [resp EXCEPT ![w] =
                          [status |-> 400,
                           body |-> [error |-> "Missing required nutritional fields."]]]
            /\ conn' = [conn EXCEPT ![w] = close_connection(g_database, "none")]
            /\ pc' = [pc EXCEPT ![w] = "done"]
       ELSE /\ conn' = [conn EXCEPT ![w] = "open"]
            /\ pc' = [pc EXCEPT ![w] = "exists"]
            /\ UNCHANGED resp
  /\ UNCHANGED <<req, wasStored, raced, nreq>>
  /\ UNCHANGED storeVars
  /\ UNCHANGED bootVars
  /\ UNCHANGED parseVars

\* the handlers that passed the existence check for the barcode of w and have
\* not yet run their INSERT
Rivals(w) ==
  {v \in Workers \ {w} : /\ pc[v] = "insert"
                         /\ req[w].data.barcode.t = "str"
                         /\ req[v].data.barcode = req[w].data.barcode}

\* add_product: the existence check.  It stands outside the try block: when
\* the SELECT raises, the exception leaves the handler (Flask answers 500) and
\* only the teardown could still close the connection
AddExists(w) ==
  /\ pc[w] = "exists"
  /\ LET found == ExistsCheck(products, req[w].data.barcode)
     IN  CASE found = "raise" ->
                /\ resp' = [resp EXCEPT ![w] =
                              [status |-> 500, body |-> [error |-> "Internal Server Error"]]]
                /\ conn' = [conn EXCEPT ![w] = close_connection(g_database, "open")]
                /\ pc' = [pc EXCEPT ![w] = "done"]
                /\ UNCHANGED raced
           [] found = "found" ->
                /\ resp' = [resp EXCEPT ![w] =
                              [status |-> 409, body |-> [error |-> "Product already exists."]]]
                /\ conn' = [conn EXCEPT ![w] = close_connection(g_database, "closed")]
                /\ pc' = [pc EXCEPT ![w] = "done"]
                /\ UNCHANGED raced
           [] OTHER ->
                /\ pc' = [pc EXCEPT ![w] = "insert"]
                /\ raced' = [x \in Workers |->
                               IF Rivals(w) # {} /\ x \in Rivals(w) \cup {w}
                                 THEN TRUE ELSE raced[x]]
                /\ UNCHANGED <<resp, conn>>
  /\ UNCHANGED <<req, wasStored, nreq>>
  /\ UNCHANGED storeVars
  /\ UNCHANGED bootVars
  /\ UNCHANGED parseVars

\* add_product: the try block (INSERT, commit, 201) or the except clause
\* (rollback, 500); both close the connection
AddInsert(w) ==
  /\ pc[w] = "insert"
  /\ LET r == AddProductInsert(products, req[w].data)
     IN  /\ products' = r.products
         /\ resp' = [resp EXCEPT ![w] = [status |-> r.status, body |-> r.body]]
  /\ conn' = [conn EXCEPT ![w] = close_connection(g_database, "closed")]
  /\ pc' = [pc EXCEPT ![w] = "done"]
  /\ UNCHANGED <<req, wasStored, raced, nreq>>
  /\ UNCHANGED <<dbFile, additives>>
  /\ UNCHANGED bootVars
  /\ UNCHANGED parseVars

\* the response has been sent; the handler thread takes the next request
Complete(w) ==
  /\ pc[w] = "done"
  /\ pc' = [pc EXCEPT ![w] = "idle"]
  /\ req' = [req EXCEPT ![w] = NoRequest]
  /\ resp' = [resp EXCEPT ![w] = NoResponse]
  /\ conn' = [conn EXCEPT ![w] = "none"]
  /\ wasStored' = [wasStored EXCEPT ![w] = FALSE]
  /\ raced' = [raced EXCEPT ![w] = FALSE]
  /\ UNCHANGED nreq
  /\ UNCHANGED storeVars
  /\ UNCHANGED bootVars
  /\ UNCHANGED parseVars

Next ==
  \/ CheckDbExists
  \/ SeedProduct
  \/ SeedCommit
  \/ Restart
  \/ \E w \in Workers : \E b \in LookupBarcodes : ReceiveGet(w, b)
  \/ \E w \in Workers : \E d \in Payloads : ReceiveAdd(w, d)
  \/ \E w \in Workers : GetProduct(w)
  \/ \E w \in Workers : AddValidate(w)
  \/ \E w \in Workers : AddExists(w)
  \/ \E w \in Workers : AddInsert(w)
  \/ \E w \in Workers : Complete(w)

Spec == Init /\ [][Next]_vars

\* ------------------------------------------- additive parsing on its own
Alphabet == {" ", ",", "E", "1"}

ParseInit ==
  /\ Init

\* one more character of the raw string is typed, and the string is parsed
TypeChar(c) ==
  /\ Len(raw) < MaxRawLen
  /\ raw' = Append(raw, c)
  /\ parsed' = ParseAdditives(raw')
  /\ UNCHANGED storeVars
  /\ UNCHANGED bootVars
  /\ UNCHANGED reqVars

\* the additive string of a catalog entry, or the documented example, is parsed
ParseKnown(s) ==
  /\ raw = <<>>
  /\ raw' = s
  /\ parsed' = ParseAdditives(raw')
  /\ UNCHANGED storeVars
  /\ UNCHANGED bootVars
  /\ UNCHANGED reqVars

KnownRaw == {ExampleRaw} \cup {SAMPLE_PRODUCTS[i].additives_str : i \in 1..Len(SAMPLE_PRODUCTS)}

ParseNext ==
  \/ \E c \in Alphabet : TypeChar(c)
  \/ \E s \in KnownRaw : ParseKnown(s)

SpecParse == ParseInit /\ [][ParseNext]_vars

\* ================================================================== claims
IsAdd(w) == req[w].kind = "add"
IsGet(w) == req[w].kind = "get"
Answered(w) == pc[w] = "done"

\* a request body with every required field and a text barcode
ValidData(data) == HasRequired(data) /\ data.barcode.t = "str"

\* no other handler is serving an insert of the barcode of w
Alone(w) ==
  \A v \in Workers \ {w} : ~(IsAdd(v) /\ req[v].data.barcode = req[w].data.barcode)

\* the category and the additive codes a request body supplies
SuppliedCategory(data) ==
  IF "category" \in DOMAIN data /\ data.category.t = "str"
    THEN data.category ELSE Str("General")

SuppliedCodes(data) ==
  IF "additives" \in DOMAIN data /\ data.additives.t = "str"
    THEN ParseAdditives(data.additives.v) ELSE <<>>

\* what a lookup has to answer for a record inserted from the body data
LookupOf(data) ==
  [status |-> 200,
   body |-> [barcode |-> data.barcode, name |-> data.name, brand |-> data.brand,
             category |-> SuppliedCategory(data),
             nutrition_per_100g |->
               [sugar |-> data.sugar, salt |-> data.salt, fat |-> data.fat,
                saturated_fat |-> data.saturated_fat, protein |-> data.protein,
                fiber |-> data.fiber, calories |-> data.calories],
             additives |-> SuppliedCodes(data)]]

C2_DuplicateIs409 ==
  \A w \in Workers :
    (Answered(w) /\ IsAdd(w) /\ HasRequired(req[w].data) /\ wasStored[w])
      => resp[w].status = 409

C2_Witness ==
  \E w \in Workers :
    /\ Answered(w) /\ IsAdd(w) /\ wasStored[w] /\ resp[w].status = 409
    /\ "category" \notin DOMAIN req[w].data

\* C3: the step that ends an insert request with 400, 409 or 500 leaves the
\* product and additive tables as they were, and a request answered 400 has
\* never opened a connection.
C3_FailedAddKeepsStore ==
  [][\A w \in Workers :
       (IsAdd(w) /\ pc[w] # "done" /\ pc'[w] = "done"
          /\ resp'[w].status \in {400, 409, 500})
         => /\ products' = products
            /\ additives' = additives
            /\ (resp'[w].status = 400 => conn[w] = "none" /\ conn'[w] = "none")]_vars

C3_Witness ==
  \E w \in Workers :
    /\ Answered(w) /\ IsAdd(w) /\ ValidData(req[w].data) /\ ~wasStored[w]
    /\ resp[w].status = 500
    /\ resp[w].body.error = "Database error during product insertion."

\* C4: the product table, committed or inside the seeding transaction, never
\* holds two rows with the same barcode, and no step changes or removes a
\* committed row.
UniqueBarcodes(tbl) ==
  \A i, j \in 1..Len(tbl) : tbl[i].barcode = tbl[j].barcode => i = j

RowsKept ==
  \A i \in 1..Len(products) : Len(products') >= i /\ products'[i] = products[i]

C4_OneRecordPerBarcode ==
  /\ [](UniqueBarcodes(products) /\ UniqueBarcodes(txProducts))
  /\ [][RowsKept]_vars

C4_Witness ==
  \E v, w \in Workers :
    /\ v # w
    /\ Answered(v) /\ Answered(w) /\ raced[v] /\ raced[w]
    /\ req[v].data.barcode = req[w].data.barcode
    /\ Len(products) = Len(SAMPLE_PRODUCTS)

\* C5: of two racing inserts of the same barcode, the one that does not
\* persist its record is answered 409.
C5_RaceLoserIs409 ==
  \A w \in Workers :
    (Answered(w) /\ IsAdd(w) /\ raced[w] /\ resp[w].status # 201)
      => resp[w].status = 409

\* C6: no request ends with its connection open.
C6_NoLeakedConnection ==
  \A w \in Workers : Answered(w) => conn[w] # "open"

Commas(s) == {i \in 1..Len(s) : s[i] = ","}

\* the index of the k-th comma of s
Comma(s, k) == CHOOSE i \in Commas(s) : Cardinality({j \in Commas(s) : j <= i}) = k

\* the indices of the piece after the k-th comma that are not whitespace
Inked(s, k) ==
  LET first == IF k = 0 THEN 1 ELSE Comma(s, k) + 1
      last == IF k = Cardinality(Commas(s)) THEN Len(s) ELSE Comma(s, k + 1) - 1
  IN  {i \in first..last : s[i] \notin Whitespace}

Least(S) == CHOOSE x \in S : \A y \in S : x <= y
Greatest(S) == CHOOSE x \in S : \A y \in S : x >= y

\* the pieces that keep a character
Kept(s) == {k \in 0..Cardinality(Commas(s)) : Inked(s, k) # {}}

\* the m-th member of the set S of numbers
Nth(S, m) == CHOOSE x \in S : Cardinality({y \in S : y <= x}) = m

C8_ParseAdditives ==
  /\ Len(parsed) = Cardinality(Kept(raw))
  /\ \A m \in 1..Len(parsed) :
       LET ink == Inked(raw, Nth(Kept(raw), m))
       IN  parsed[m] = SubSeq(raw, Least(ink), Greatest(ink))
  /\ (raw = ExampleRaw
        => parsed = << <<"E", "4", "7", "1">>, <<"E", "2", "8", "2">> >>)

C8_Witness ==
  /\ raw = ExampleRaw
  /\ parsed = << <<"E", "4", "7", "1">>, <<"E", "2", "8", "2">> >>

\* C9: a lookup writes nothing, and a lookup of a barcode that has no stored
\* record is answered 404.
C9_LookupReadsOnly ==
  [][\A w \in Workers :
       (pc[w] = "get_product" /\ pc'[w] = "done")
         => /\ products' = products
            /\ additives' = additives
            /\ dbFile' = dbFile
            /\ (~BarcodeStored(products, Str(req[w].barcode))
                  => resp'[w].status = 404)]_vars

C9_Witness ==
  \E w \in Workers :
    /\ Answered(w) /\ IsGet(w) /\ ~BarcodeStored(products, Str(req[w].barcode))
    /\ resp[w].status = 404

\* C10: once the catalog is seeded, a lookup of each catalog barcode returns
\* the additive codes of its catalog entry in order, and every row of the
\* additive table belongs to a row of the product table.
C10_SeedRoundTrip ==
  bootPc = "serving" =>
    /\ \A i \in 1..Len(SAMPLE_PRODUCTS) :
         LET r == GetProductResult(products, SAMPLE_PRODUCTS[i].barcode)
         IN  /\ r.status = 200
             /\ r.body.additives = ParseAdditives(SAMPLE_PRODUCTS[i].additives_str)
    /\ GetProductResult(products, "6001000000018").body.additives
         = << <<"E", "1", "5", "0", "d">>, <<"E", "3", "3", "8">> >>
    /\ \A j \in 1..Len(additives) :
         \E i \in 1..Len(products) : products[i].id = additives[j].product_id
=============================================================================
